---------------------------- MODULE Spec2Model ----------------------------
(***************************************************************************)
(* Model of SpaceImageExplorer (src/main.py): the four request handlers    *)
(* get_daily_nasa_image, search_nasa_images, chat_with_space_expert and    *)
(* get_space_weather, each driven by the outcomes of its external          *)
(* collaborators (requests.get, response.json, the tokenizer and model,    *)
(* random.choice, datetime.now).                                           *)
(*                                                                         *)
(* Representation of Python values:                                        *)
(*  - text (str) is a sequence of symbols.  Text the code inspects         *)
(*    character by character (message bodies, generated text, exception    *)
(*    descriptions) is spelled one character per symbol.  A literal of the *)
(*    program that the code only copies, concatenates or compares whole is *)
(*    one symbol.  An emoji is one symbol named by its code point, since   *)
(*    module text is ASCII.                                                *)
(*  - a JSON value is a record tagged by t: null, str, num, list, obj.     *)
(*    A JSON object is a TLA+ record, so  k in d  is  k \in DOMAIN d.      *)
(*  - the outcome of a call is  [raised |-> FALSE, value |-> v]  or        *)
(*    [raised |-> TRUE, exc |-> description]; only exceptions derived from *)
(*    Exception are modelled.                                              *)
(***************************************************************************)
EXTENDS Integers, Sequences, FiniteSets, TLC

VARIABLES call, ret

vars == <<call, ret>>

----------------------------------------------------------------------------
(* Outcomes of calls *)

Ok(v) == [raised |-> FALSE, value |-> v]

Raise(e) == [raised |-> TRUE, exc |-> e]

----------------------------------------------------------------------------
(* Python values *)

PyNone == [t |-> "null"]

JStr(s) == [t |-> "str", s |-> s]

JNum(n) == [t |-> "num", n |-> n]

JList(l) == [t |-> "list", l |-> l]

JObj(r) == [t |-> "obj", o |-> r]

(* dict.get(key, default) on a JSON object's record *)
Get(d, key, default) == IF key \in DOMAIN d THEN d[key] ELSE default

(* bool(x): None, "", 0, [] and {} are false *)
Truthy(x) ==
    CASE x.t = "null" -> FALSE
      [] x.t = "str"  -> x.s # <<>>
      [] x.t = "num"  -> x.n # 0
      [] x.t = "list" -> x.l # <<>>
      [] x.t = "obj"  -> DOMAIN x.o # {}

----------------------------------------------------------------------------
(* Text *)

ToLower ==
    [c \in {"A","B","C","D","E","F","G","H","I","J","K","L","M",
            "N","O","P","Q","R","S","T","U","V","W","X","Y","Z"} |->
        CASE c = "A" -> "a" [] c = "B" -> "b" [] c = "C" -> "c" [] c = "D" -> "d"
          [] c = "E" -> "e" [] c = "F" -> "f" [] c = "G" -> "g" [] c = "H" -> "h"
          [] c = "I" -> "i" [] c = "J" -> "j" [] c = "K" -> "k" [] c = "L" -> "l"
          [] c = "M" -> "m" [] c = "N" -> "n" [] c = "O" -> "o" [] c = "P" -> "p"
          [] c = "Q" -> "q" [] c = "R" -> "r" [] c = "S" -> "s" [] c = "T" -> "t"
          [] c = "U" -> "u" [] c = "V" -> "v" [] c = "W" -> "w" [] c = "X" -> "x"
          [] c = "Y" -> "y" [] c = "Z" -> "z"]

(* str.lower() *)
Lower(s) == [i \in 1..Len(s) |-> IF s[i] \in DOMAIN ToLower THEN ToLower[s[i]] ELSE s[i]]

(* sub occurs in s at position i *)
IsAt(s, sub, i) ==
    /\ i >= 1
    /\ i + Len(sub) - 1 <= Len(s)
    /\ \A k \in 1..Len(sub) : s[i + k - 1] = sub[k]

(* sub in s *)
Contains(s, sub) == \E i \in 1..(Len(s) - Len(sub) + 1) : IsAt(s, sub, i)

(* s.split(sep)[-1]: split scans from the left for non-overlapping       *)
(* occurrences of sep; the last piece starts after the last one it found *)
RECURSIVE SplitLastFrom(_, _, _)
SplitLastFrom(s, sep, i) ==
    LET found == {j \in i..(Len(s) - Len(sep) + 1) : IsAt(s, sep, j)}
    IN  IF found = {}
        THEN SubSeq(s, i, Len(s))
        ELSE LET j == CHOOSE m \in found : \A o \in found : m <= o
             IN  SplitLastFrom(s, sep, j + Len(sep))

SplitLast(s, sep) == SplitLastFrom(s, sep, 1)

Whitespace == {" ", "\t", "\n", "\r"}

(* str.strip() *)
Strip(s) ==
    LET keep == {i \in 1..Len(s) : s[i] \notin Whitespace}
    IN  IF keep = {}
        THEN <<>>
        ELSE SubSeq(s, CHOOSE a \in keep : \A o \in keep : a <= o,
                       CHOOSE b \in keep : \A o \in keep : b >= o)

Digits == <<"0", "1", "2", "3", "4", "5", "6", "7", "8", "9">>

(* str(n) for n >= 0 *)
RECURSIVE IntToText(_)
IntToText(n) ==
    IF n < 10 THEN <<Digits[n + 1]>>
    ELSE IntToText(n \div 10) \o <<Digits[(n % 10) + 1]>>

----------------------------------------------------------------------------
(* Operations on JSON values that raise on the wrong type *)

Min(a, b) == IF a <= b THEN a ELSE b

TypeName(x) ==
    CASE x.t = "null" -> "NoneType"
      [] x.t = "str"  -> "str"
      [] x.t = "num"  -> "int"
      [] x.t = "list" -> "list"
      [] x.t = "obj"  -> "dict"

(* str(e) of the AttributeError raised by x.attr *)
NoAttribute(x, attr) == <<"'", TypeName(x), "' object has no attribute '", attr, "'">>

(* the spelling of the keys the program looks up *)
KeyText ==
    [collection |-> <<"c", "o", "l", "l", "e", "c", "t", "i", "o", "n">>,
     items      |-> <<"i", "t", "e", "m", "s">>,
     links      |-> <<"l", "i", "n", "k", "s">>,
     data       |-> <<"d", "a", "t", "a">>,
     href       |-> <<"h", "r", "e", "f">>]

(* key in x, for a str key: a key test on a dict, a membership test on a   *)
(* list, a substring test on a str, a TypeError on anything else           *)
In(key, x) ==
    CASE x.t = "obj"  -> Ok(key \in DOMAIN x.o)
      [] x.t = "list" -> Ok(\E i \in 1..Len(x.l) :
                                x.l[i].t = "str" /\ x.l[i].s = KeyText[key])
      [] x.t = "str"  -> Ok(Contains(x.s, KeyText[key]))
      [] OTHER        -> Raise(<<"argument of type '", TypeName(x), "' is not iterable">>)

(* x[key], for a str key *)
GetKey(x, key) ==
    CASE x.t = "obj"  -> IF key \in DOMAIN x.o THEN Ok(x.o[key])
                         ELSE Raise(<<"'", key, "'">>)
      [] x.t = "list" -> Raise(<<"list indices must be integers or slices, not str">>)
      [] x.t = "str"  -> Raise(<<"string indices must be integers, not 'str'">>)
      [] OTHER        -> Raise(<<"'", TypeName(x), "' object is not subscriptable">>)

(* x[0] *)
GetFirst(x) ==
    CASE x.t = "list" -> IF x.l = <<>> THEN Raise(<<"list index out of range">>)
                         ELSE Ok(x.l[1])
      [] x.t = "str"  -> IF x.s = <<>> THEN Raise(<<"string index out of range">>)
                         ELSE Ok(JStr(<<x.s[1]>>))
      [] x.t = "obj"  -> Raise(<<"0">>)
      [] OTHER        -> Raise(<<"'", TypeName(x), "' object is not subscriptable">>)

(* x[:] in place of x[:n]: the whole of x *)
SliceAll(x, n) ==
    CASE x.t = "list" -> Ok(x)
      [] x.t = "str"  -> Ok(x)
      [] x.t = "obj"  -> Raise(<<"unhashable type: 'slice'">>)
      [] OTHER        -> Raise(<<"'", TypeName(x), "' object is not subscriptable">>)

(* x[:n] *)
SliceTo(x, n) ==
    CASE x.t = "list" -> Ok(JList(SubSeq(x.l, 1, Min(n, Len(x.l)))))
      [] x.t = "str"  -> Ok(JStr(SubSeq(x.s, 1, Min(n, Len(x.s)))))
      [] x.t = "obj"  -> Raise(<<"unhashable type: 'slice'">>)
      [] OTHER        -> Raise(<<"'", TypeName(x), "' object is not subscriptable">>)

(* the values a for loop over x binds, x a list or a str *)
Elements(x) ==
    IF x.t = "str" THEN [i \in 1..Len(x.s) |-> JStr(<<x.s[i]>>)] ELSE x.l

(* x.get(key, default), an attribute of dict only *)
GetAttr(x, key, default) ==
    IF x.t = "obj" THEN Ok(Get(x.o, key, default)) ELSE Raise(NoAttribute(x, "get"))

----------------------------------------------------------------------------
(* External outcomes the handlers are driven by *)

(* str(e) of the exceptions the collaborators raise; the empty text is the *)
(* description of an exception constructed without arguments               *)
ExcTexts == { <<>>, <<"o", "o", "m">>, <<"b", "a", "d">> }

HTTP_OK == 200

StatusCodes == {HTTP_OK, 404, 500}

----------------------------------------------------------------------------
(* get_daily_nasa_image *)

ApodBodies ==
    LET T == JStr(<<"M", "3", "1">>)
        U == JStr(<<"u", "r", "l">>)
        E == JStr(<<>>)
        D == JStr(<<"2", "0", "2", "5">>)
        full == [title |-> T, url |-> U, explanation |-> E, date |-> D]
    IN  { JObj([k \in ks |-> full[k]]) : ks \in SUBSET {"title", "url", "explanation", "date"} }
        \cup { JObj([title |-> PyNone, url |-> U]), JList(<<>>), PyNone }

ApodResponses ==
    { [status_code |-> s, json |-> j] :
        s \in StatusCodes,
        j \in { Ok(b) : b \in ApodBodies } \cup { Raise(e) : e \in ExcTexts } }

ApodHttp == { Ok(r) : r \in ApodResponses } \cup { Raise(e) : e \in ExcTexts }

(* lines 45-52 with default strings for the missing fields *)
daily_ok_branch_defaults(response) ==
    IF response.json.raised THEN response.json
    ELSE LET data == response.json.value
         IN  IF data.t # "obj"
             THEN Raise(NoAttribute(data, "get"))
             ELSE Ok([success     |-> TRUE,
                      title       |-> Get(data.o, "title", JStr(<<"No title">>)),
                      url         |-> Get(data.o, "url", JStr(<<>>)),
                      explanation |-> Get(data.o, "explanation", JStr(<<"No description">>)),
                      date        |-> Get(data.o, "date", JStr(<<"Unknown date">>))])

(* the 200 branch, lines 45-52: response.json() may raise, and .get is an  *)
(* attribute of dict only                                                  *)
daily_ok_branch(response) ==
    IF response.json.raised THEN response.json
    ELSE LET data == response.json.value
         IN  IF data.t # "obj"
             THEN Raise(NoAttribute(data, "get"))
             ELSE Ok([success     |-> TRUE,
                      title       |-> Get(data.o, "title", PyNone),
                      url         |-> Get(data.o, "url", PyNone),
                      explanation |-> Get(data.o, "explanation", PyNone),
                      date        |-> Get(data.o, "date", PyNone)])

(* the body of the try statement, lines 43-53 *)
daily_try(http) ==
    IF http.raised THEN http
    ELSE LET response == http.value
         IN  IF response.status_code = HTTP_OK
             THEN daily_ok_branch(response)
             ELSE Ok([success |-> FALSE,
                      error   |-> <<"Status code: ">> \o IntToText(response.status_code)])

get_daily_nasa_image(http) ==
    LET r == daily_try(http)
    IN  IF r.raised
        THEN Ok([success |-> FALSE, error |-> r.exc])
        ELSE r

----------------------------------------------------------------------------
(* Inputs of search_nasa_images: the query and the search response *)

MaxItems == 6

MaxRareItems == 2

Queries == { <<>>, <<"m", "a", "r", "s">> }

(* a field of the i-th item, distinct for every item *)
Tag(c, i) == JStr(<<c>> \o IntToText(i))

ItemData(i) ==
    JList(<<JObj([title |-> Tag("t", i), description |-> Tag("d", i),
                  date_created |-> Tag("c", i)])>>)

ItemLinks(i) == JList(<<JObj([href |-> Tag("h", i)])>>)

CommonKinds == {"nolinks", "emptylinks", "linked"}

RareKinds == {"emptyhref", "bare", "nulltitle", "nodata", "emptydata", "nohref",
              "nulllinks", "null", "str"}

Item(kind, i) ==
    CASE kind = "nolinks"    -> JObj([data |-> ItemData(i)])
      [] kind = "emptylinks" -> JObj([data |-> ItemData(i), links |-> JList(<<>>)])
      [] kind = "linked"     -> JObj([data |-> ItemData(i), links |-> ItemLinks(i)])
      [] kind = "emptyhref"  -> JObj([data |-> ItemData(i),
                                      links |-> JList(<<JObj([href |-> JStr(<<>>)])>>)])
      [] kind = "bare"       -> JObj([data |-> JList(<<JObj(<<>>)>>), links |-> ItemLinks(i)])
      [] kind = "nulltitle"  -> JObj([data |-> JList(<<JObj([title |-> PyNone])>>),
                                      links |-> ItemLinks(i)])
      [] kind = "nodata"     -> JObj([links |-> ItemLinks(i)])
      [] kind = "emptydata"  -> JObj([data |-> JList(<<>>), links |-> ItemLinks(i)])
      [] kind = "nohref"     -> JObj([data |-> ItemData(i), links |-> JList(<<JObj(<<>>)>>)])
      [] kind = "nulllinks"  -> JObj([data |-> ItemData(i), links |-> PyNone])
      [] kind = "null"       -> PyNone
      [] kind = "str"        -> JStr(KeyText.links)

ItemListsOf(kinds, max) ==
    UNION { { [i \in 1..n |-> Item(k[i], i)] : k \in [1..n -> kinds] } : n \in 0..max }

ItemLists ==
    ItemListsOf(CommonKinds, MaxItems)
        \cup ItemListsOf(CommonKinds \cup RareKinds, MaxRareItems)

SearchBodies ==
    { JObj([collection |-> JObj([items |-> JList(l)])]) : l \in ItemLists }
        \cup { JObj([collection |-> JObj(<<>>)]),
               JObj([collection |-> JObj([items |-> PyNone])]),
               JObj([collection |-> JObj([items |-> JStr(KeyText.links)])]),
               JObj([collection |-> PyNone]),
               JObj([collection |-> JStr(KeyText.items)]),
               JObj([collection |-> JList(<<JStr(KeyText.items)>>)]),
               JObj(<<>>),
               JList(<<>>) }

(* an error response carries an error page or a JSON body *)
SearchResponses ==
    { [status_code |-> HTTP_OK, json |-> j] :
        j \in { Ok(b) : b \in SearchBodies } \cup { Raise(e) : e \in ExcTexts } }
    \cup { [status_code |-> s, json |-> j] :
             s \in StatusCodes \ {HTTP_OK},
             j \in { Raise(<<"b", "a", "d">>),
                     Ok(JObj([collection |-> JObj([items |-> JList(<<Item("linked", 1)>>)])])) } }

SearchHttp == { Ok(r) : r \in SearchResponses } \cup { Raise(e) : e \in ExcTexts }

----------------------------------------------------------------------------
(* search_nasa_images *)

MAX_IMAGES == 5

(* the dict built at lines 68-73; the entries are evaluated in order, and  *)
(* once item['data'][0].get has worked for the title it works for the rest *)
image_data(item) ==
    LET d     == GetKey(item, "data")
        d0    == GetFirst(d.value)
        title == GetAttr(d0.value, "title", JStr(<<"No title">>))
        links == GetKey(item, "links")
        l0    == GetFirst(links.value)
        href  == GetKey(l0.value, "href")
    IN  CASE d.raised     -> d
          [] d0.raised    -> d0
          [] title.raised -> title
          [] links.raised -> links
          [] l0.raised    -> l0
          [] href.raised  -> href
          [] OTHER ->
             Ok([title        |-> title.value,
                 description  |-> Get(d0.value.o, "description", JStr(<<"No description">>)),
                 url          |-> href.value,
                 date_created |-> Get(d0.value.o, "date_created", JStr(<<"Unknown date">>))])

(* the condition of line 67:  'links' in item and item['links'] *)
has_links(item) ==
    LET isin  == In("links", item)
        links == GetKey(item, "links")
    IN  CASE isin.raised    -> isin
          [] ~isin.value    -> Ok(FALSE)
          [] links.raised   -> links
          [] OTHER          -> Ok(Truthy(links.value))

(* the for loop of lines 66-74 from its i-th iteration on *)
RECURSIVE search_loop(_, _, _)
search_loop(items, i, images) ==
    IF i > Len(items) THEN Ok(images)
    ELSE LET cond == has_links(items[i])
             img  == image_data(items[i])
         IN  CASE cond.raised -> cond
               [] ~cond.value -> search_loop(items, i + 1, images)
               [] img.raised  -> img
               [] OTHER       -> search_loop(items, i + 1, Append(images, img.value))

(* the 200 branch, lines 63-75 *)
search_ok_branch(response) ==
    LET data     == response.json
        coll     == GetKey(data.value, "collection")
        hasItems == In("items", coll.value)
        items    == GetKey(coll.value, "items")
        first    == SliceTo(items.value, MAX_IMAGES)
        images   == search_loop(Elements(first.value), 1, <<>>)
    IN  CASE data.raised     -> data
          [] coll.raised     -> coll
          [] hasItems.raised -> hasItems
          [] ~hasItems.value -> Ok([success |-> TRUE, images |-> <<>>])
          [] items.raised    -> items
          [] first.raised    -> first
          [] images.raised   -> images
          [] OTHER           -> Ok([success |-> TRUE, images |-> images.value])

(* the body of the try statement, lines 61-76 *)
search_try(http) ==
    IF http.raised THEN http
    ELSE LET response == http.value
         IN  IF response.status_code = HTTP_OK
             THEN search_ok_branch(response)
             ELSE Ok([success |-> FALSE,
                      error   |-> <<"Status code: ">> \o IntToText(response.status_code)])

search_nasa_images(query, http) ==
    LET r == search_try(http)
    IN  IF r.raised
        THEN Ok([success |-> FALSE, error |-> r.exc])
        ELSE r

----------------------------------------------------------------------------
(* chat_with_space_expert *)

MaxRawPieces == 3

(* the prompt marker of lines 84 and 108 *)
Marker == <<"e", "x", "p", "l", "a", "i", "n", ":">>

fun_facts ==
    << <<"A day on Venus is longer than its year! ", "U+1F62E">>,
       <<"The footprints on the Moon will stay there for millions of years! ", "U+1F463">>,
       <<"Saturn could float in a giant bathtub because it's less dense than water! ",
         "U+1F6C1">> >>

Messages == { <<"s", "u", "n">>,
              <<"E", "x", "p", "l", "a", "i", "n", ":", " ", "s", "u", "n">> }

(* line 84 *)
Prompt(message) == <<"As a space expert, ">> \o Marker \o <<" ">> \o message

RawPieces == { Marker, <<"E", "x", "p", "l", "a", "i", "n", ":">>, <<" ">>, <<"a">> }

RECURSIVE TextsOf(_, _)
TextsOf(pieces, n) ==
    IF n = 0 THEN { <<>> }
    ELSE LET shorter == TextsOf(pieces, n - 1)
         IN  shorter \cup { t \o q : t \in shorter, q \in pieces }

(* what tokenizer.decode may return: any text, among them the prompt       *)
(* followed by a continuation                                              *)
RawTexts(message) ==
    LET texts == TextsOf(RawPieces, MaxRawPieces)
    IN  texts \cup { Prompt(message) \o t : t \in texts }

NotCalled == Ok(PyNone)

(* the outcomes of the tokenizer call (line 87), of model.generate (line   *)
(* 95) and of tokenizer.decode (line 107); a step after one that raised is *)
(* not called                                                              *)
ChatEnvs(message) ==
    { [tokenizer |-> Raise(e), generate |-> NotCalled, decode |-> NotCalled] :
        e \in ExcTexts }
    \cup { [tokenizer |-> Ok(PyNone), generate |-> Raise(e), decode |-> NotCalled] :
             e \in ExcTexts }
    \cup { [tokenizer |-> Ok(PyNone), generate |-> Ok(PyNone), decode |-> Raise(e)] :
             e \in ExcTexts }
    \cup { [tokenizer |-> Ok(PyNone), generate |-> Ok(PyNone), decode |-> Ok(t)] :
             t \in RawTexts(message) }

(* line 108 *)
clean_response(response) ==
    IF Contains(Lower(response), Marker)
    THEN Strip(SplitLast(response, Marker))
    ELSE response

(* the body of the try statement, lines 84-116 *)
chat_try(message, env, fact) ==
    CASE env.tokenizer.raised -> env.tokenizer
      [] env.generate.raised  -> env.generate
      [] env.decode.raised    -> env.decode
      [] OTHER ->
         Ok(JStr(<<"U+1F680", " ">> \o clean_response(env.decode.value)
                   \o <<"\n", "\n", "U+2728", " Fun Fact: ">> \o fun_facts[fact]))

(* the handler without its except clause *)
chat_uncaught(message, env, fact) == chat_try(message, env, fact)

chat_with_space_expert(message, env, fact) ==
    LET r == chat_try(message, env, fact)
    IN  IF r.raised
        THEN Ok(JStr(<<"Houston, we have a problem!", " ", "U+1F680",
                       " Please try asking that question differently. Error: ">> \o r.exc))
        ELSE r

----------------------------------------------------------------------------
(* Inputs of get_space_weather: the clock and the notifications response *)

MaxBodyPieces == 2

MaxEntries == 2

(* datetime.now() *)
Clocks == { [hour |-> 0, minute |-> 0], [hour |-> 9, minute |-> 5],
            [hour |-> 13, minute |-> 30] }

BodyPieces == { <<"f", "l", "a", "r", "e">>, <<"F", "l", "a", "r", "e">>,
                <<"a", "u", "r", "o", "r", "a">>, <<"A", "U", "R", "O", "R", "A">>,
                <<"x">> }

(* Absent stands for a key the entry does not carry *)
Absent == [t |-> "absent"]

MessageTypes ==
    { Absent, JStr(<<"Report">>), JStr(<<"Watch">>), JStr(<<"Warning">>),
      JStr(<<"Alert">>), JStr(<<"Summary">>), PyNone, JList(<<>>) }

MessageBodies ==
    { Absent, PyNone } \cup { JStr(b) : b \in TextsOf(BodyPieces, MaxBodyPieces) }

Entry(mt, mb) ==
    JObj([k \in ({"messageType"} \ (IF mt = Absent THEN {"messageType"} ELSE {}))
              \cup ({"messageBody"} \ (IF mb = Absent THEN {"messageBody"} ELSE {}))
          |-> IF k = "messageType" THEN mt ELSE mb])

Entries ==
    { Entry(mt, mb) : mt \in MessageTypes, mb \in MessageBodies }
        \cup { JStr(<<"x">>), PyNone }

(* only the first entry is read; the others are one fixed entry *)
OtherEntry == Entry(JStr(<<"Alert">>), JStr(<<"F", "l", "a", "r", "e">>))

NotificationLists ==
    { <<>> } \cup { <<e>> \o [i \in 1..n |-> OtherEntry] :
                      e \in Entries, n \in 0..(MaxEntries - 1) }

NotificationBodies ==
    { JList(l) : l \in NotificationLists }
        \cup { JObj([message |-> JStr(<<"x">>)]), JObj(<<>>), PyNone,
               JStr(<<"x">>), JStr(<<>>), JNum(0), JNum(5) }

NotificationResponses ==
    { [status_code |-> HTTP_OK, json |-> j] :
        j \in { Ok(b) : b \in NotificationBodies } \cup { Raise(e) : e \in ExcTexts } }
    \cup { [status_code |-> s, json |-> j] :
             s \in StatusCodes \ {HTTP_OK},
             j \in { Raise(<<"b", "a", "d">>), Ok(JList(<<OtherEntry>>)) } }

NotificationHttp ==
    { Ok(r) : r \in NotificationResponses } \cup { Raise(e) : e \in ExcTexts }

----------------------------------------------------------------------------
(* get_space_weather *)

NOON == 12

(* two decimal digits, as %I and %M print *)
TwoDigits(n) == <<Digits[(n \div 10) + 1], Digits[(n % 10) + 1]>>

(* now.strftime("%I:%M %p") *)
Strftime(now) ==
    LET h12 == IF now.hour % NOON = 0 THEN NOON ELSE now.hour % NOON
    IN  TwoDigits(h12) \o <<":">> \o TwoDigits(now.minute)
            \o <<" ">> \o (IF now.hour < NOON THEN <<"AM">> ELSE <<"PM">>)

(* lines 135-140 *)
weather_types ==
    [k \in { <<"Report">>, <<"Watch">>, <<"Warning">>, <<"Alert">> } |->
        CASE k = <<"Report">>  -> "U+1F6F8"
          [] k = <<"Watch">>   -> "U+26A0 U+FE0F"
          [] k = <<"Warning">> -> "U+1F6A8"
          [] k = <<"Alert">>   -> "U+26A1"]

(* the table never consulted: the default for every key that hashes *)
weather_emoji_default(key, default) ==
    IF key.t \in {"list", "obj"}
    THEN Raise(<<"unhashable type: '", TypeName(key), "'">>)
    ELSE Ok(default)

(* weather_types.get(key, default): the key is hashed first *)
weather_emoji(key, default) ==
    CASE key.t \in {"list", "obj"} ->
            Raise(<<"unhashable type: '", TypeName(key), "'">>)
      [] key.t = "str" /\ key.s \in DOMAIN weather_types -> Ok(weather_types[key.s])
      [] OTHER -> Ok(default)

(* str(x) as an f-string formats it; x is hashable here *)
PyStr(x) ==
    CASE x.t = "str"  -> x.s
      [] x.t = "null" -> <<"None">>
      [] x.t = "num"  -> IntToText(x.n)

(* sub in data.get('messageBody', '').lower(), lines 150 and 152; .lower is *)
(* an attribute of str only                                                 *)
body_mentions(data, sub) ==
    LET body == Get(data.o, "messageBody", JStr(<<>>))
    IN  IF body.t # "str" THEN Raise(NoAttribute(body, "lower"))
        ELSE Ok(Contains(Lower(body.s), sub))

_format_real_weather(data, now) ==
    LET message_type == GetAttr(data, "messageType", JStr(<<"Report">>))
        emoji        == weather_emoji(message_type.value, "U+1F6F8")
        flare        == body_mentions(data, <<"f", "l", "a", "r", "e">>)
        aurora       == body_mentions(data, <<"a", "u", "r", "o", "r", "a">>)
    IN  CASE message_type.raised -> message_type
          [] emoji.raised        -> emoji
          [] flare.raised        -> flare
          [] aurora.raised       -> aurora
          [] OTHER ->
             Ok([status |-> <<emoji.value, " Space Weather ">> \o PyStr(message_type.value),
                 conditions |->
                    << [label |-> <<"Current Activity">>, value |-> message_type.value,
                        emoji |-> emoji.value],
                       [label |-> <<"Solar Activity">>,
                        value |-> IF flare.value THEN JStr(<<"Active">>) ELSE JStr(<<"Calm">>),
                        emoji |-> "U+1F31E"],
                       [label |-> <<"Aurora Forecast">>,
                        value |-> IF aurora.value THEN JStr(<<"Visible">>)
                                  ELSE JStr(<<"Not Visible">>),
                        emoji |-> "U+1F30C"] >>,
                 description |-> Get(data.o, "messageBody",
                        JStr(<<"Space weather information currently unavailable">>)),
                 time |-> Strftime(now)])

(* lines 160-188 *)
scenarios ==
    << [status |-> <<"U+1F31F", " Perfect Space Weather">>,
        conditions |->
           << [label |-> <<"Current Activity">>, value |-> JStr(<<"Calm">>),
               emoji |-> "U+2728"],
              [label |-> <<"Solar Activity">>, value |-> JStr(<<"Low">>),
               emoji |-> "U+1F31E"],
              [label |-> <<"Aurora Forecast">>, value |-> JStr(<<"Not Visible">>),
               emoji |-> "U+1F319"] >>,
        description |-> JStr(<<"Perfect conditions for stargazing tonight! The Milky Way should be clearly visible.">>)],
       [status |-> <<"U+1F320", " Aurora Alert">>,
        conditions |->
           << [label |-> <<"Current Activity">>, value |-> JStr(<<"Active">>),
               emoji |-> "U+26A1"],
              [label |-> <<"Solar Activity">>, value |-> JStr(<<"High">>),
               emoji |-> "U+1F31E"],
              [label |-> <<"Aurora Forecast">>, value |-> JStr(<<"Visible">>),
               emoji |-> "U+1F386"] >>,
        description |-> JStr(<<"A solar storm is creating perfect conditions for aurora viewing! Look toward the northern horizon tonight.">>)],
       [status |-> <<"U+2604 U+FE0F", " Meteor Shower">>,
        conditions |->
           << [label |-> <<"Current Activity">>, value |-> JStr(<<"Special Event">>),
               emoji |-> "U+2604 U+FE0F"],
              [label |-> <<"Solar Activity">>, value |-> JStr(<<"Normal">>),
               emoji |-> "U+1F31E"],
              [label |-> <<"Aurora Forecast">>, value |-> JStr(<<"Not Visible">>),
               emoji |-> "U+1F319"] >>,
        description |-> JStr(<<"A meteor shower is expected tonight! Best viewing hours are between 11 PM and 3 AM.">>)] >>

(* the first scenario whatever random.choice draws *)
simulated_weather_first(choice, now) ==
    Ok([status      |-> scenarios[1].status,
        conditions  |-> scenarios[1].conditions,
        description |-> scenarios[1].description,
        time        |-> Strftime(now)])

(* lines 189-191: the chosen scenario with its "time" entry set *)
_generate_simulated_weather(choice, now) ==
    LET weather == scenarios[choice]
    IN  Ok([status      |-> weather.status,
            conditions  |-> weather.conditions,
            description |-> weather.description,
            time        |-> Strftime(now)])

(* lines 123-128 without the test of the status code *)
weather_try_any_status(http, now) ==
    IF http.raised THEN http
    ELSE LET data  == http.value.json
             first == GetFirst(data.value)
         IN  CASE data.raised            -> data
               [] ~Truthy(data.value)    -> Ok(PyNone)
               [] first.raised           -> first
               [] OTHER                  -> _format_real_weather(first.value, now)

(* the body of the try statement, lines 123-128; Ok(PyNone) stands for    *)
(* falling out of the try without a return                                *)
weather_try(http, now) ==
    IF http.raised THEN http
    ELSE LET response == http.value
             data     == response.json
             first    == GetFirst(data.value)
         IN  CASE response.status_code # HTTP_OK -> Ok(PyNone)
               [] data.raised                    -> data
               [] ~Truthy(data.value)            -> Ok(PyNone)
               [] first.raised                   -> first
               [] OTHER                          -> _format_real_weather(first.value, now)

(* the handler with the exception of the try statement left uncaught *)
get_space_weather_uncaught(http, choice, now) ==
    LET r == weather_try(http, now)
    IN  IF ~r.raised /\ r.value = PyNone
        THEN _generate_simulated_weather(choice, now)
        ELSE r

get_space_weather(http, choice, now) ==
    LET r == weather_try(http, now)
    IN  IF r.raised \/ r.value = PyNone
        THEN _generate_simulated_weather(choice, now)
        ELSE r

----------------------------------------------------------------------------
(* The state machine: one request at a time (the UI serialises callbacks); *)
(* a handler runs to its return, then the callback hands the result to the *)
(* widgets and the record is dropped.                                      *)

Idle == [op |-> "idle"]

NoRet == Ok(PyNone)

Init ==
    /\ call = Idle
    /\ ret = NoRet

GetDailyNasaImage ==
    /\ call.op = "idle"
    /\ \E http \in ApodHttp :
        /\ call' = [op |-> "get_daily_nasa_image", http |-> http]
        /\ ret' = get_daily_nasa_image(http)

SearchNasaImages ==
    /\ call.op = "idle"
    /\ \E query \in Queries, http \in SearchHttp :
        /\ call' = [op |-> "search_nasa_images", query |-> query, http |-> http]
        /\ ret' = search_nasa_images(query, http)

(* random.choice is drawn where the handler reaches it *)
ChatWithSpaceExpert ==
    /\ call.op = "idle"
    /\ \E message \in Messages :
        \E env \in ChatEnvs(message), fact \in 1..Len(fun_facts) :
            /\ call' = [op |-> "chat_with_space_expert", message |-> message, env |-> env]
            /\ ret' = chat_with_space_expert(message, env, fact)

GetSpaceWeatherWith(http, now, choice) ==
    /\ call.op = "idle"
    /\ call' = [op |-> "get_space_weather", http |-> http, now |-> now]
    /\ ret' = get_space_weather(http, choice, now)

GetSpaceWeather ==
    /\ call.op = "idle"
    /\ \E http \in NotificationHttp, now \in Clocks :
        \E choice \in 1..Len(scenarios) : GetSpaceWeatherWith(http, now, choice)

Respond ==
    /\ call.op # "idle"
    /\ call' = Idle
    /\ ret' = NoRet

Next ==
    \/ GetDailyNasaImage
    \/ SearchNasaImages
    \/ ChatWithSpaceExpert
    \/ GetSpaceWeather
    \/ Respond

Spec == Init /\ [][Next]_vars

----------------------------------------------------------------------------
(* Properties of get_daily_nasa_image *)

DailyCall == call.op = "get_daily_nasa_image"

DailyFields == {"title", "url", "explanation", "date"}

(* C4: whenever the image-of-the-day call ends with a status other than    *)
(* 200 or raises, whatever the exception's description, the handler        *)
(* returns success = false with an error that is present and non-empty.    *)
C4_ErrorNonEmpty ==
    (DailyCall /\ (call.http.raised \/ call.http.value.status_code # HTTP_OK))
        => /\ ~ret.raised
           /\ ret.value.success = FALSE
           /\ "error" \in DOMAIN ret.value
           /\ ret.value.error # <<>>

(* C6: for a 200 response whose body is an object missing any subset of    *)
(* title/url/explanation/date, the handler returns success = true, every   *)
(* missing field is None and every present field is the body's value.      *)
C6_MissingFieldsAreNone ==
    (/\ DailyCall
     /\ ~call.http.raised
     /\ call.http.value.status_code = HTTP_OK
     /\ ~call.http.value.json.raised
     /\ call.http.value.json.value.t = "obj")
        => LET body == call.http.value.json.value.o
           IN  /\ ~ret.raised
               /\ ret.value.success = TRUE
               /\ DailyFields \subseteq DOMAIN ret.value
               /\ \A k \in DailyFields :
                     ret.value[k] = IF k \in DOMAIN body THEN body[k] ELSE PyNone

C6_Witness ==
    /\ DailyCall
    /\ ~call.http.raised
    /\ call.http.value.status_code = HTTP_OK
    /\ ~call.http.value.json.raised
    /\ call.http.value.json.value.t = "obj"
    /\ DOMAIN call.http.value.json.value.o = {"url", "date"}
    /\ ret.value.success = TRUE
    /\ ret.value.title = PyNone
    /\ ret.value.url = JStr(<<"u", "r", "l">>)

----------------------------------------------------------------------------
(* Properties of search_nasa_images *)

SearchCall == call.op = "search_nasa_images"

(* the call got a 200 response whose body holds a list of items *)
SearchGotItems ==
    /\ SearchCall
    /\ ~call.http.raised
    /\ call.http.value.status_code = HTTP_OK
    /\ ~call.http.value.json.raised
    /\ call.http.value.json.value.t = "obj"
    /\ "collection" \in DOMAIN call.http.value.json.value.o
    /\ call.http.value.json.value.o.collection.t = "obj"
    /\ "items" \in DOMAIN call.http.value.json.value.o.collection.o
    /\ call.http.value.json.value.o.collection.o.items.t = "list"

SearchItems == call.http.value.json.value.o.collection.o.items.l

(* the item has a non-empty links array *)
Linked(item) ==
    /\ item.t = "obj"
    /\ "links" \in DOMAIN item.o
    /\ item.o.links.t = "list"
    /\ item.o.links.l # <<>>

(* the item has the shape the search endpoint documents: a data array with *)
(* a first entry and, when it has links, an href in the first link         *)
WellFormed(item) ==
    /\ item.t = "obj"
    /\ "data" \in DOMAIN item.o
    /\ item.o.data.t = "list"
    /\ item.o.data.l # <<>>
    /\ item.o.data.l[1].t = "obj"
    /\ "links" \in DOMAIN item.o =>
          /\ item.o.links.t = "list"
          /\ item.o.links.l # <<>> =>
                /\ item.o.links.l[1].t = "obj"
                /\ "href" \in DOMAIN item.o.links.l[1].o

(* the positions among the first n items that have a non-empty links array *)
LinkedAmong(n) == { i \in 1..Min(n, Len(SearchItems)) : Linked(SearchItems[i]) }

(* the k-th smallest element of a set of positions *)
Nth(S, k) == CHOOSE i \in S : Cardinality({ j \in S : j <= i }) = k

(* images holds, in order, the items at the positions S *)
ImagesAre(S) ==
    /\ Len(ret.value.images) = Cardinality(S)
    /\ \A k \in 1..Cardinality(S) :
          LET item == SearchItems[Nth(S, k)]
          IN  /\ ret.value.images[k].url = item.o.links.l[1].o.href
              /\ ret.value.images[k].title =
                    Get(item.o.data.l[1].o, "title", JStr(<<"No title">>))

(* the image was built from the item *)
CameFrom(image, item) ==
    /\ Linked(item)
    /\ image.url = item.o.links.l[1].o.href
    /\ image.title = Get(item.o.data.l[1].o, "title", JStr(<<"No title">>))

(* C3, as claimed: for a 200 response with N items, some without a links   *)
(* array, the handler returns success = true and the length of images is   *)
(* min(5, number of items of the whole response with a non-empty links     *)
(* array), the included items keeping their source order.                  *)
C3_Original ==
    (SearchGotItems /\ \A i \in 1..Len(SearchItems) : WellFormed(SearchItems[i]))
        => /\ ~ret.raised
           /\ ret.value.success = TRUE
           /\ Len(ret.value.images) =
                 Min(MAX_IMAGES, Cardinality(LinkedAmong(Len(SearchItems))))
           /\ \A k \in 1..(Len(ret.value.images) - 1) :
                 \E i, j \in 1..Len(SearchItems) :
                    /\ i < j
                    /\ CameFrom(ret.value.images[k], SearchItems[i])
                    /\ CameFrom(ret.value.images[k + 1], SearchItems[j])

(* C3, amended: for a 200 response with N items, the handler looks at the  *)
(* first 5 items only.  Whenever it returns success = true, images holds   *)
(* exactly the items among the first 5 that have a non-empty links array,  *)
(* in source order (so its length is their number, and no item after the   *)
(* fifth is included); and it does return success = true when the items    *)
(* among the first 5 are well formed.                                      *)
C3_FirstFiveLinked ==
    SearchGotItems
        => /\ ~ret.raised
           /\ ret.value.success = TRUE => ImagesAre(LinkedAmong(MAX_IMAGES))
           /\ (\A i \in 1..Min(MAX_IMAGES, Len(SearchItems)) : WellFormed(SearchItems[i]))
                 => ret.value.success = TRUE

(* more than 5 items, the first without links, a linked item after the     *)
(* fifth: four images come back                                            *)
C3_Witness ==
    /\ SearchGotItems
    /\ Len(SearchItems) > MAX_IMAGES
    /\ ~Linked(SearchItems[1])
    /\ \A i \in 2..Len(SearchItems) : Linked(SearchItems[i]) /\ WellFormed(SearchItems[i])
    /\ ret.value.success = TRUE
    /\ Len(ret.value.images) = MAX_IMAGES - 1

(* C7: in every SearchResult each image has a non-empty url: an item with  *)
(* no link entry is dropped without failing the search, and no item is     *)
(* included with an empty url, whatever the first link's href is.          *)
C7_UrlNonEmpty ==
    (SearchCall /\ ~ret.raised /\ ret.value.success = TRUE)
        => \A k \in 1..Len(ret.value.images) :
              /\ ret.value.images[k].url.t = "str"
              /\ ret.value.images[k].url.s # <<>>

----------------------------------------------------------------------------
(* Properties of chat_with_space_expert *)

ChatCall == call.op = "chat_with_space_expert"

(* s starts with sub *)
StartsWith(s, sub) == IsAt(s, sub, 1)

(* the step of the try statement that raised, if one did *)
ChatFailure ==
    CASE call.env.tokenizer.raised -> call.env.tokenizer
      [] call.env.generate.raised  -> call.env.generate
      [] OTHER                     -> call.env.decode

(* C5: the handler never raises; if tokenization, generation or decoding   *)
(* raises, the result starts with "Houston, we have a problem!" and        *)
(* contains the exception's description; the result is never empty.        *)
C5_ChatNeverRaises ==
    ChatCall
        => /\ ~ret.raised
           /\ ret.value.t = "str"
           /\ ret.value.s # <<>>
           /\ ChatFailure.raised
                 => /\ StartsWith(ret.value.s, <<"Houston, we have a problem!">>)
                    /\ Contains(ret.value.s, ChatFailure.exc)

C5_Witness ==
    /\ ChatCall
    /\ ~call.env.tokenizer.raised
    /\ call.env.generate.raised
    /\ call.env.generate.exc = <<"o", "o", "m">>
    /\ ~ret.raised
    /\ StartsWith(ret.value.s, <<"Houston, we have a problem!">>)
    /\ Contains(ret.value.s, <<"o", "o", "m">>)

(* the explanation segment of a result built at line 114: what stands      *)
(* between the rocket prefix and the fun-fact suffix                       *)
ChatSegment == SubSeq(ret.value.s, 3, Len(ret.value.s) - 6)

(* the text after the last occurrence of the marker in any letter case *)
AfterLastMarker(raw) ==
    LET at   == { j \in 1..Len(raw) : IsAt(Lower(raw), Marker, j) }
        last == CHOOSE j \in at : \A o \in at : o <= j
    IN  SubSeq(raw, last + Len(Marker), Len(raw))

(* C10: if the lowercased generated text contains "explain:" (in any       *)
(* letter case in the raw text), the explanation segment is the text after *)
(* the last occurrence of the marker, trimmed, and the marker does not     *)
(* appear in it; otherwise the segment is the raw text, not trimmed.       *)
C10_MarkerStripped ==
    (ChatCall /\ ~ChatFailure.raised)
        => LET raw == call.env.decode.value
           IN  /\ ~ret.raised
               /\ IF Contains(Lower(raw), Marker)
                  THEN /\ ChatSegment = Strip(AfterLastMarker(raw))
                       /\ ~Contains(Lower(ChatSegment), Marker)
                  ELSE ChatSegment = raw

----------------------------------------------------------------------------
(* Properties of get_space_weather *)

WeatherCall == call.op = "get_space_weather"

WeatherLabels == << <<"Current Activity">>, <<"Solar Activity">>, <<"Aurora Forecast">> >>

(* the result is the i-th fallback scenario, verbatim, with a time stamp *)
IsScenario(result, i) ==
    /\ DOMAIN result = {"status", "conditions", "description", "time"}
    /\ result.status = scenarios[i].status
    /\ result.conditions = scenarios[i].conditions
    /\ result.description = scenarios[i].description

IsFallback(result) == \E i \in 1..Len(scenarios) : IsScenario(result, i)

(* C1: whatever the notifications call does (it raises, any status, any    *)
(* decoded body: an empty list, a non-list, a first entry with missing or  *)
(* ill-typed fields), the handler returns without raising a record with    *)
(* status, description, time and exactly 3 conditions labelled, in order,  *)
(* Current Activity, Solar Activity, Aurora Forecast.                      *)
C1_WeatherAlwaysThreeConditions ==
    WeatherCall
        => /\ ~ret.raised
           /\ {"status", "description", "time", "conditions"} \subseteq DOMAIN ret.value
           /\ Len(ret.value.conditions) = 3
           /\ \A k \in 1..3 : ret.value.conditions[k].label = WeatherLabels[k]

(* a 200 response whose first entry has a null messageBody *)
C1_Witness ==
    /\ WeatherCall
    /\ ~call.http.raised
    /\ call.http.value.status_code = HTTP_OK
    /\ ~call.http.value.json.raised
    /\ call.http.value.json.value.t = "list"
    /\ call.http.value.json.value.l # <<>>
    /\ call.http.value.json.value.l[1].t = "obj"
    /\ "messageBody" \in DOMAIN call.http.value.json.value.l[1].o
    /\ call.http.value.json.value.l[1].o.messageBody = PyNone
    /\ ~ret.raised
    /\ Len(ret.value.conditions) = 3

(* the HTTP call of the notifications request raises *)
Unreachable == { Raise(e) : e \in ExcTexts }

(* C2: if the notifications call raises, the handler does not raise and    *)
(* returns one of the 3 fallback scenarios verbatim with a time stamp; and *)
(* each of the 3 scenarios is a possible result of such a call.            *)
C2_UnreachableGivesScenario ==
    /\ (WeatherCall /\ call.http.raised) => (~ret.raised /\ IsFallback(ret.value))
    /\ call.op = "idle" =>
          \A h \in Unreachable, i \in 1..Len(scenarios) :
             ENABLED (\E now \in Clocks, choice \in 1..Len(scenarios) :
                        /\ GetSpaceWeatherWith(h, now, choice)
                        /\ IsScenario(ret'.value, i))

C2_Witness ==
    /\ WeatherCall
    /\ call.http.raised
    /\ ~ret.raised
    /\ IsScenario(ret.value, 3)
    /\ ret.value.status = <<"U+2604 U+FE0F", " Meteor Shower">>

(* the call got a 200 response whose body is a non-empty list *)
WeatherGotEntries ==
    /\ WeatherCall
    /\ ~call.http.raised
    /\ call.http.value.status_code = HTTP_OK
    /\ ~call.http.value.json.raised
    /\ call.http.value.json.value.t = "list"
    /\ call.http.value.json.value.l # <<>>

FirstEntry == call.http.value.json.value.l[1]

(* the first entry is formatted without an exception: it is an object, its *)
(* messageType (if any) can be hashed, its messageBody (if any) is a str   *)
Formattable(entry) ==
    /\ entry.t = "obj"
    /\ "messageType" \in DOMAIN entry.o => entry.o.messageType.t \in {"str", "null", "num"}
    /\ "messageBody" \in DOMAIN entry.o => entry.o.messageBody.t = "str"

KnownTypes == { <<"Report">>, <<"Watch">>, <<"Warning">>, <<"Alert">> }

(* C8, as claimed: when a real entry is formatted, the message type used   *)
(* in the result is one of Report/Watch/Warning/Alert (an unrecognized or  *)
(* missing messageType counting as Report), the emoji is the table's entry *)
(* for it, status is "<emoji> Space Weather <message type>" and Current    *)
(* Activity carries the same message type and emoji.  Stated for entries   *)
(* whose messageType is missing or a string.                               *)
C8_Original ==
    (/\ WeatherGotEntries
     /\ Formattable(FirstEntry)
     /\ "messageType" \in DOMAIN FirstEntry.o => FirstEntry.o.messageType.t = "str")
        => LET given == Get(FirstEntry.o, "messageType", JStr(<<"Report">>))
               used  == IF given.t = "str" /\ given.s \in KnownTypes
                        THEN given.s ELSE <<"Report">>
           IN  /\ ~ret.raised
               /\ ret.value.status = <<weather_types[used], " Space Weather ">> \o used
               /\ ret.value.conditions[1].value = JStr(used)
               /\ ret.value.conditions[1].emoji = weather_types[used]

(* C8, amended: when a real entry is formatted, the message type used in   *)
(* the result is the entry's messageType as given (Report only when the    *)
(* key is missing); the emoji is the table's entry for that type, and the  *)
(* entry of Report when the type is not in the table; status is "<emoji>   *)
(* Space Weather <message type>" and Current Activity carries that same    *)
(* message type and emoji.                                                 *)
C8_TypeAsGiven ==
    (WeatherGotEntries /\ Formattable(FirstEntry))
        => LET given == Get(FirstEntry.o, "messageType", JStr(<<"Report">>))
               emoji == IF given.t = "str" /\ given.s \in KnownTypes
                        THEN weather_types[given.s] ELSE weather_types[<<"Report">>]
               text  == CASE given.t = "str"  -> given.s
                          [] given.t = "null" -> <<"None">>
                          [] given.t = "num"  -> IntToText(given.n)
           IN  /\ ~ret.raised
               /\ ret.value.status = <<emoji, " Space Weather ">> \o text
               /\ ret.value.conditions[1].value = given
               /\ ret.value.conditions[1].emoji = emoji

(* an unrecognized type keeps its name and gets Report's emoji *)
C8_Witness ==
    /\ WeatherGotEntries
    /\ Formattable(FirstEntry)
    /\ "messageType" \in DOMAIN FirstEntry.o
    /\ FirstEntry.o.messageType = JStr(<<"Summary">>)
    /\ ret.value.status = <<"U+1F6F8", " Space Weather ", "Summary">>
    /\ ret.value.conditions[1].value = JStr(<<"Summary">>)

Placeholder == JStr(<<"Space weather information currently unavailable">>)

(* C9, as claimed: the real-data path is taken exactly when the transport  *)
(* succeeds, the status is 200 and the returned collection is non-empty:   *)
(* then the result is the formatting of the first entry (description = its *)
(* message body, or the placeholder if absent) and not a fallback          *)
(* scenario; in every other case the result is a fallback scenario.        *)
(* Stated for first entries that are JSON objects.                         *)
C9_Original ==
    WeatherCall
        => /\ ~ret.raised
           /\ IF WeatherGotEntries
              THEN FirstEntry.t = "obj"
                     => /\ ~IsFallback(ret.value)
                        /\ ret.value.description =
                              Get(FirstEntry.o, "messageBody", Placeholder)
              ELSE IsFallback(ret.value)

(* C9, amended: the real-data path is taken exactly when the transport     *)
(* succeeds, the status is 200, the body decodes to a non-empty list and   *)
(* formatting its first entry raises no exception (the entry is an object, *)
(* its messageType, if present, is hashable, its messageBody, if present,  *)
(* is a string): then the result is the formatting of the first entry      *)
(* (description = its message body, or the placeholder if absent) and not  *)
(* a fallback scenario; in every other case, an entry whose formatting     *)
(* raises included, the result is a fallback scenario.                     *)
C9_RealPathWhenFormattable ==
    WeatherCall
        => /\ ~ret.raised
           /\ IF WeatherGotEntries /\ Formattable(FirstEntry)
              THEN /\ ~IsFallback(ret.value)
                   /\ ret.value.status[2] = " Space Weather "
                   /\ ret.value.description = Get(FirstEntry.o, "messageBody", Placeholder)
              ELSE IsFallback(ret.value)

(* a non-empty list whose first entry has no messageBody: the placeholder; *)
C9_Witness ==
    /\ WeatherGotEntries
    /\ Formattable(FirstEntry)
    /\ "messageBody" \notin DOMAIN FirstEntry.o
    /\ ~IsFallback(ret.value)
    /\ ret.value.description = Placeholder

============================================================================
